---- MODULE Spec2Model ----
(***************************************************************************)
(* A model of src/src/main.rs: the bencode codec (mod bencode) and the     *)
(* bit vector (mod bitfield).                                              *)
(*                                                                         *)
(* A Rust &str / String is modelled as a sequence of one-character         *)
(* strings (all characters used are ASCII, so byte offsets and character   *)
(* offsets coincide, as they do in the source for ASCII input).  A panic   *)
(* (unwrap on None/Err, panic!, an out-of-range slice or index) is the     *)
(* result Panic: the call returns no value at all.                         *)
(***************************************************************************)
EXTENDS Integers, Sequences, FiniteSets, TLC

\* ------------------------------------------------------------------ bounds

\* Value trees have at most MaxNodes nodes (every Bencode variant is a node).
MaxNodes == 3

\* Bitfield::create is called with bit_size in 0..MaxBitSize.
MaxBitSize == 9

\* The leaves value trees are built from, and the keys of their mappings.
IntVals == {1, -20}

StrVals == {<<>>, <<"a", "c", "e">>}

Keys == {<<"a">>, <<"t", "e", "s", "t">>}

\* What may follow an encoding in the input handed to decode.
Suffixes == {<<"e">>, <<"i", "1", "e">>}

\* The characters a corrupted input has one of inserted.
InsertChars == {"+", "-", "1", "e", "x", ":"}

\* ------------------------------------------------------------ the Bencode enum

\* A value is a record of its variant t and that variant's payload.

BList(list) == [t |-> "BList", list |-> list]

BString(string) == [t |-> "BString", string |-> string]

BDict(dict) == [t |-> "BDict", dict |-> dict]

BInt(int) == [t |-> "BInt", int |-> int]

\* HashMap::new()
EmptyMap == [k \in {} |-> 0]

\* HashMap::insert: a later insert of the same key overwrites the earlier one.
MapInsert(dict, key, value) ==
    [k \in (DOMAIN dict) \cup {key} |-> IF k = key THEN value ELSE dict[k]]

RECURSIVE eq(_, _)
\* impl PartialEq for Bencode: same variant, then the payloads compared
\* (Vec: same length and pairwise eq; HashMap: same keys and eq values).
eq(self, other) ==
    IF self.t # other.t THEN FALSE
    ELSE CASE self.t = "BString" -> self.string = other.string
           [] self.t = "BInt" -> self.int = other.int
           [] self.t = "BList" ->
                /\ Len(self.list) = Len(other.list)
                /\ \A i \in 1..Len(self.list) : eq(self.list[i], other.list[i])
           [] self.t = "BDict" ->
                /\ DOMAIN self.dict = DOMAIN other.dict
                /\ \A k \in DOMAIN self.dict : eq(self.dict[k], other.dict[k])

\* ------------------------------------------------- the bounded value trees

RECURSIVE ValuesOfSize(_), ItemSeqs(_), DictsOver(_, _)
\* The well-formed value trees with exactly n nodes.
ValuesOfSize(n) ==
    IF n <= 0 THEN {}
    ELSE (IF n = 1
          THEN {BInt(i) : i \in IntVals} \cup {BString(s) : s \in StrVals}
          ELSE {})
         \cup {BList(s) : s \in ItemSeqs(n - 1)}
         \cup {BDict(d) : d \in DictsOver(Keys, n - 1)}

\* The sequences of value trees with n nodes in all.
ItemSeqs(n) ==
    IF n = 0 THEN {<<>>}
    ELSE UNION {{<<x>> \o r : x \in ValuesOfSize(k), r \in ItemSeqs(n - k)} :
                k \in 1..n}

\* The mappings with keys among keys (each at most once) and n nodes in all.
DictsOver(keys, n) ==
    IF keys = {} THEN (IF n = 0 THEN {EmptyMap} ELSE {})
    ELSE LET key == CHOOSE k \in keys : TRUE
             rest == keys \ {key}
         IN  DictsOver(rest, n)
             \cup UNION {{MapInsert(d, key, x) :
                            x \in ValuesOfSize(m), d \in DictsOver(rest, n - m)} :
                         m \in 1..n}

Values == UNION {ValuesOfSize(n) : n \in 1..MaxNodes}

\* ---------------------------------------------------- numbers to and from text

DigitChars == <<"0", "1", "2", "3", "4", "5", "6", "7", "8", "9">>

IsDigit(c) == \E d \in 1..Len(DigitChars) : DigitChars[d] = c

DigitValue(c) == (CHOOSE d \in 1..Len(DigitChars) : DigitChars[d] = c) - 1

RECURSIVE FormatNat(_)
\* format!("{}", n) of an unsigned number: its decimal digits, no leading zero.
FormatNat(n) ==
    IF n < Len(DigitChars) THEN <<DigitChars[n + 1]>>
    ELSE FormatNat(n \div Len(DigitChars)) \o <<DigitChars[(n % Len(DigitChars)) + 1]>>

\* format!("{}", int) of an i64: a '-' and the digits of a negative number.
FormatInt(int) == IF int < 0 THEN <<"-">> \o FormatNat(-int) ELSE FormatNat(int)

RECURSIVE ParseDigits(_, _)
\* The digit loop of str::parse: acc * 10 + digit, Err at the first non-digit.
\* (The inputs of this model are far too short to overflow 64 bits.)
ParseDigits(s, acc) ==
    IF s = <<>> THEN [ok |-> TRUE, v |-> acc]
    ELSE IF ~IsDigit(Head(s)) THEN [ok |-> FALSE, v |-> 0]
    ELSE ParseDigits(Tail(s), acc * Len(DigitChars) + DigitValue(Head(s)))

\* str::parse::<usize>: Err on the empty string and on a lone sign; one leading
\* '+' is accepted and skipped; '-' is no digit of an unsigned number.
parse_usize(s) ==
    IF s = <<>> THEN [ok |-> FALSE, v |-> 0]
    ELSE IF Len(s) = 1 /\ Head(s) \in {"+", "-"} THEN [ok |-> FALSE, v |-> 0]
    ELSE IF Head(s) = "+" THEN ParseDigits(Tail(s), 0)
    ELSE ParseDigits(s, 0)

\* str::parse::<i64>: as parse_usize, and a leading '-' negates.
parse_i64(s) ==
    IF s = <<>> THEN [ok |-> FALSE, v |-> 0]
    ELSE IF Len(s) = 1 /\ Head(s) \in {"+", "-"} THEN [ok |-> FALSE, v |-> 0]
    ELSE IF Head(s) = "+" THEN ParseDigits(Tail(s), 0)
    ELSE IF Head(s) = "-"
         THEN LET r == ParseDigits(Tail(s), 0) IN [ok |-> r.ok, v |-> 0 - r.v]
    ELSE ParseDigits(s, 0)

\* str::find(char): the 0-based offset of the first occurrence, -1 for None.
find(string, c) ==
    IF \E i \in 1..Len(string) : string[i] = c
    THEN (CHOOSE i \in 1..Len(string) :
            string[i] = c /\ \A j \in 1..(i - 1) : string[j] # c) - 1
    ELSE -1

\* &string[from..to] with 0-based offsets (the caller checks the range).
Slice(string, from, to) == SubSeq(string, from + 1, to)

\* ------------------------------------------------------------------ encode

\* The orders in which a HashMap with these keys may be iterated: unspecified
\* by the language, so every order is a possible outcome.
IterOrders(keys) ==
    {o \in [1..Cardinality(keys) -> keys] :
        \A i, j \in 1..Cardinality(keys) : o[i] = o[j] => i = j}

RECURSIVE encode(_), _encode_list(_), _encode_dict(_)
RECURSIVE EncodeListLoop(_, _, _), EncodeDictLoop(_, _, _, _)

\* Bencode::encode: the set of strings the call may return (one string unless
\* a mapping with two or more keys is involved).
encode(self) ==
    CASE self.t = "BString" -> {FormatNat(Len(self.string)) \o <<":">> \o self.string}
      [] self.t = "BInt" -> {<<"i">> \o FormatInt(self.int) \o <<"e">>}
      [] self.t = "BList" -> _encode_list(self.list)
      [] self.t = "BDict" -> _encode_dict(self.dict)

\* for obj in list.iter() { result.push_str(&obj.encode()) }, from item i on.
EncodeListLoop(list, i, results) ==
    IF i > Len(list) THEN results
    ELSE EncodeListLoop(list, i + 1,
                        {r \o s : r \in results, s \in encode(list[i])})

\* A plausible slip: the items pushed from the last to the first.
_encode_list_reversed(list) ==
    {r \o <<"e">> :
        r \in EncodeListLoop([i \in 1..Len(list) |-> list[Len(list) + 1 - i]],
                             1, {<<"l">>})}

_encode_list(list) ==
    {r \o <<"e">> : r \in EncodeListLoop(list, 1, {<<"l">>})}

RECURSIVE EncodeDictLoopNoLength(_, _, _, _)
\* A plausible slip: the key pushed without its length prefix.
EncodeDictLoopNoLength(dict, order, i, results) ==
    IF i > Len(order) THEN results
    ELSE EncodeDictLoopNoLength(dict, order, i + 1,
            {r \o order[i] \o s : r \in results, s \in encode(dict[order[i]])})

\* for (key, value) in dict { push "<len>:<key>"; push value.encode() }, in
\* the iteration order, from its i-th key on.
EncodeDictLoop(dict, order, i, results) ==
    IF i > Len(order) THEN results
    ELSE EncodeDictLoop(dict, order, i + 1,
            {r \o FormatNat(Len(order[i])) \o <<":">> \o order[i] \o s :
                r \in results, s \in encode(dict[order[i]])})

_encode_dict(dict) ==
    UNION {{r \o <<"e">> : r \in EncodeDictLoop(dict, order, 1, {<<"d">>})} :
           order \in IterOrders(DOMAIN dict)}

\* ------------------------------------------------------------------ decode

\* A decode step's outcome: the pair (value, remaining input), or a panic.
NoValue == [t |-> "none"]

Panic == [ok |-> FALSE, val |-> NoValue, rest |-> <<>>]

Ok(value, remainder) == [ok |-> TRUE, val |-> value, rest |-> remainder]

_decode_int(string) ==
    LET end == find(string, "e")
        int == parse_i64(Slice(string, 0, end))
    IN  IF end < 0 THEN Panic
        ELSE IF ~int.ok THEN Panic
        ELSE Ok(BInt(int.v), Slice(string, end + 1, Len(string)))

\* Returns the key as a bare string in val.
_decode_string(string) ==
    LET delimiter == find(string, ":")
        length == parse_usize(Slice(string, 0, delimiter))
        word_start == delimiter + 1
        word_end == word_start + length.v
    IN  IF delimiter < 0 THEN Panic
        ELSE IF ~length.ok THEN Panic
        ELSE IF word_end > Len(string) THEN Panic
        ELSE Ok(Slice(string, word_start, word_end),
                Slice(string, word_end, Len(string)))

_decode_b_string(string) ==
    LET delimiter == find(string, ":")
        length == parse_usize(Slice(string, 0, delimiter))
        word_start == delimiter + 1
        word_end == word_start + length.v
    IN  IF delimiter < 0 THEN Panic
        ELSE IF ~length.ok THEN Panic
        ELSE IF word_end > Len(string) THEN Panic
        ELSE Ok(BString(Slice(string, word_start, word_end)),
                Slice(string, word_end, Len(string)))

RECURSIVE decode(_), _decode_list(_), _decode_dict(_)
RECURSIVE DecodeListLoop(_, _), DecodeDictLoop(_, _, _)

\* The loop of _decode_list; cursor is the first character of substr.
DecodeListLoop(results, substr) ==
    IF substr = <<>> THEN Panic
    ELSE IF Head(substr) = "e" THEN Ok(BList(results), substr)
    ELSE LET result == decode(substr)
         IN  IF ~result.ok THEN Panic
             ELSE DecodeListLoop(Append(results, result.val), result.rest)

_decode_list(string) == DecodeListLoop(<<>>, string)

\* The loop of _decode_dict; chars is what chars.as_str() holds, cursor the
\* character chars.next() returned last ("" for None).
DecodeDictLoop(results, chars, cursor) ==
    IF cursor = "e" THEN Ok(BDict(results), chars)
    ELSE IF cursor = "" THEN Panic
    ELSE LET key == _decode_string(chars)
             value == decode(key.rest)
         IN  IF ~key.ok THEN Panic
             ELSE IF ~value.ok THEN Panic
             ELSE DecodeDictLoop(MapInsert(results, key.val, value.val),
                                 IF value.rest = <<>> THEN <<>> ELSE Tail(value.rest),
                                 IF value.rest = <<>> THEN "" ELSE Head(value.rest))

_decode_dict(string) == DecodeDictLoop(EmptyMap, string, "0")

\* Bencode::decode: starting_char.unwrap() panics on the empty string.
decode(string) ==
    IF string = <<>> THEN Panic
    ELSE CASE Head(string) = "l" -> _decode_list(Tail(string))
           [] Head(string) = "d" -> _decode_dict(Tail(string))
           [] Head(string) = "i" -> _decode_int(Tail(string))
           [] OTHER -> _decode_b_string(string)

\* ---------------------------------------------------------------- bitfield

RECURSIVE BitOr(_, _), BitAnd(_, _), BitXor(_, _)
\* a | b on unsigned bytes
BitOr(a, b) ==
    IF a = 0 THEN b ELSE IF b = 0 THEN a
    ELSE (IF a % 2 = 1 \/ b % 2 = 1 THEN 1 ELSE 0) + 2 * BitOr(a \div 2, b \div 2)

\* a & b on unsigned bytes
BitAnd(a, b) ==
    IF a = 0 \/ b = 0 THEN 0
    ELSE (IF a % 2 = 1 /\ b % 2 = 1 THEN 1 ELSE 0) + 2 * BitAnd(a \div 2, b \div 2)

\* a ^ b on unsigned bytes
BitXor(a, b) ==
    IF a = 0 THEN b ELSE IF b = 0 THEN a
    ELSE (IF a % 2 # b % 2 THEN 1 ELSE 0) + 2 * BitXor(a \div 2, b \div 2)

\* 1 << bit_index in a u8, for bit_index = index % 8
Shl1(bit_index) == 2 ^ bit_index

\* (bit_size/8) + (if bit_size % 8 != 0 {1} else {0})
byte_size(bit_size) == (bit_size \div 8) + (IF bit_size % 8 # 0 THEN 1 ELSE 0)

\* The new value of bytes[index / 8] in set_value.
set_byte(bytes, index) ==
    LET byte_index == index \div 8
        bit_index == index % 8
        bit_twiddle == BitOr(0, Shl1(bit_index))
    IN  BitOr(bytes[byte_index + 1], bit_twiddle)

\* A plausible slip: the bit toggled (^) instead of cleared (& of the mask).
unset_byte_toggle(bytes, index) ==
    LET byte_index == index \div 8
        bit_index == index % 8
    IN  BitXor(bytes[byte_index + 1], Shl1(bit_index))

\* The new value of bytes[index / 8] in unset_value.
unset_byte(bytes, index) ==
    LET byte_index == index \div 8
        bit_index == index % 8
        bit_twiddle == BitXor(255, Shl1(bit_index))
    IN  BitAnd(bytes[byte_index + 1], bit_twiddle)

\* Bitfield::get_value on a Bitfield with these bytes (index within them).
get_value(bytes, index) ==
    LET byte_index == index \div 8
        bit_index == index % 8
        mask == Shl1(bit_index)
    IN  BitAnd(bytes[byte_index + 1], mask) # 0

\* ------------------------------------------------------------------- state

VARIABLES
    pc,         \* codec run: "start", "encoded", "decoded", "redecoded"
    value,      \* the value tree handed to encode
    encoded,    \* what encode returned
    how,        \* how the decode input was made from encoded
    suffix,     \* what was appended to encoded ("suffix" inputs)
    input,      \* the string handed to decode
    result,     \* what decode returned for input
    reencoded,  \* encode of the decoded value
    reresult,   \* decode of reencoded
    bf_pc,      \* bitfield run: "new", "live", "panicked"
    bf_len,     \* Bitfield.len
    bf_bytes,   \* Bitfield.bytes
    bf_last,    \* history: per index, whether the most recent call on it was
                \* set_value (FALSE when it was never set)
    bf_call,    \* history: the most recent set_value / unset_value call
    bf_prev     \* history: bytes as they were before that call

codec_vars == <<pc, value, encoded, how, suffix, input, result, reencoded, reresult>>

bf_vars == <<bf_pc, bf_len, bf_bytes, bf_last, bf_call, bf_prev>>

vars == <<codec_vars, bf_vars>>

NoCall == [op |-> "none", index |-> 0]

CodecIdle ==
    /\ pc = "start"
    /\ encoded = <<>>
    /\ how = "none"
    /\ suffix = <<>>
    /\ input = <<>>
    /\ result = Panic
    /\ reencoded = <<>>
    /\ reresult = Panic

BitfieldIdle ==
    /\ bf_pc = "new"
    /\ bf_len = 0
    /\ bf_bytes = <<>>
    /\ bf_last = <<>>
    /\ bf_call = NoCall
    /\ bf_prev = <<>>

\* ----------------------------------------------------------- codec actions

\* value.encode()
Encode ==
    /\ pc = "start"
    /\ \E s \in encode(value) : encoded' = s
    /\ pc' = "encoded"
    /\ UNCHANGED <<value, how, suffix, input, result, reencoded, reresult, bf_vars>>

\* Bencode::decode(string) on the input x made from the encoding.
Decoding(x, kind, sfx) ==
    /\ pc = "encoded"
    /\ input' = x
    /\ how' = kind
    /\ suffix' = sfx
    /\ result' = decode(x)
    /\ pc' = "decoded"
    /\ UNCHANGED <<value, encoded, reencoded, reresult, bf_vars>>

\* decode(v.encode())
DecodeEncoded == Decoding(encoded, "exact", <<>>)

\* decode of an encoding followed by more input
DecodeWithSuffix == \E s \in Suffixes : Decoding(encoded \o s, "suffix", s)

\* decode of a proper prefix of an encoding
DecodeTruncated ==
    \E n \in 0..(Len(encoded) - 1) : Decoding(SubSeq(encoded, 1, n), "prefix", <<>>)

\* decode of an encoding with one character inserted
DecodeCorrupted ==
    \E n \in 0..Len(encoded), c \in InsertChars :
        Decoding(SubSeq(encoded, 1, n) \o <<c>> \o SubSeq(encoded, n + 1, Len(encoded)),
                 "insert", <<>>)

\* Bencode::decode(&decoded.encode()) for the value a decode returned
Reencode ==
    /\ pc = "decoded"
    /\ result.ok
    /\ \E s \in encode(result.val) :
        /\ reencoded' = s
        /\ reresult' = decode(s)
    /\ pc' = "redecoded"
    /\ UNCHANGED <<value, encoded, how, suffix, input, result, bf_vars>>

Init ==
    /\ value \in Values
    /\ CodecIdle
    /\ BitfieldIdle

Next ==
    \/ Encode
    \/ DecodeEncoded
    \/ DecodeWithSuffix
    \/ DecodeTruncated
    \/ DecodeCorrupted
    \/ Reencode

Spec == Init /\ [][Next]_vars

\* -------------------------------------------------------- bitfield actions

\* Bitfield::create(bit_size)
Create ==
    /\ bf_pc = "new"
    /\ \E bit_size \in 0..MaxBitSize :
        /\ bf_len' = bit_size
        /\ bf_bytes' = [i \in 1..byte_size(bit_size) |-> 0]
        /\ bf_last' = [i \in 0..(8 * byte_size(bit_size) - 1) |-> FALSE]
        /\ bf_prev' = bf_bytes'
    /\ bf_pc' = "live"
    /\ bf_call' = NoCall
    /\ UNCHANGED codec_vars

\* self.bytes[byte_index] with byte_index past the end of the Vec panics.
IndexPanics(index) == index \div 8 >= Len(bf_bytes)

\* Bitfield::set_value(index)
SetValue ==
    /\ bf_pc = "live"
    /\ \E index \in 0..MaxBitSize :
        IF IndexPanics(index)
        THEN /\ bf_pc' = "panicked"
             /\ UNCHANGED <<bf_len, bf_bytes, bf_last, bf_call, bf_prev>>
        ELSE /\ bf_bytes' = [bf_bytes EXCEPT ![(index \div 8) + 1] = set_byte(bf_bytes, index)]
             /\ bf_last' = [bf_last EXCEPT ![index] = TRUE]
             /\ bf_call' = [op |-> "set_value", index |-> index]
             /\ bf_prev' = bf_bytes
             /\ UNCHANGED <<bf_pc, bf_len>>
    /\ UNCHANGED codec_vars

\* Bitfield::unset_value(index)
UnsetValue ==
    /\ bf_pc = "live"
    /\ \E index \in 0..MaxBitSize :
        IF IndexPanics(index)
        THEN /\ bf_pc' = "panicked"
             /\ UNCHANGED <<bf_len, bf_bytes, bf_last, bf_call, bf_prev>>
        ELSE /\ bf_bytes' = [bf_bytes EXCEPT ![(index \div 8) + 1] = unset_byte(bf_bytes, index)]
             /\ bf_last' = [bf_last EXCEPT ![index] = FALSE]
             /\ bf_call' = [op |-> "unset_value", index |-> index]
             /\ bf_prev' = bf_bytes
             /\ UNCHANGED <<bf_pc, bf_len>>
    /\ UNCHANGED codec_vars

InitBitfield ==
    /\ value = BList(<<>>)
    /\ CodecIdle
    /\ BitfieldIdle

NextBitfield ==
    \/ Create
    \/ SetValue
    \/ UnsetValue

SpecBitfield == InitBitfield /\ [][NextBitfield]_vars

\* ------------------------------------------------------------------ claims

\* The characters that open a value: 'i', 'l', 'd' and the decimal digits.
ValueMarkers == {"i", "l", "d"} \cup {DigitChars[d] : d \in 1..Len(DigitChars)}

RECURSIVE NoDict(_)
\* The value tree holds no mapping at any depth.
NoDict(v) ==
    CASE v.t = "BDict" -> FALSE
      [] v.t = "BList" -> \A i \in 1..Len(v.list) : NoDict(v.list[i])
      [] OTHER -> TRUE

\* C1: round trip: decoding the encoding of a well-formed value tree succeeds
\* and returns a value structurally equal to it.
RoundTrip ==
    (pc = "decoded" /\ how = "exact") => (result.ok /\ eq(result.val, value))

\* C2: cursor discipline: whenever decode of encode(v) followed by a suffix s
\* (s empty when the encoding is decoded as it is) returns, it returns v and,
\* as remaining input, exactly s.
CursorDiscipline ==
    (pc = "decoded" /\ how \in {"exact", "suffix"} /\ result.ok)
        => (eq(result.val, value) /\ result.rest = suffix)

\* C3: truncation fails: decode of a proper prefix of a well-formed encoding
\* fails and returns no value.
TruncationFails ==
    (pc = "decoded" /\ how = "prefix") => ~result.ok

\* C4: unexpected marker: decode fails on the empty input and on every input
\* whose first character is not 'i', 'l', 'd' or a decimal digit.
UnexpectedMarker ==
    (pc = "decoded" /\ (input = <<>> \/ Head(input) \notin ValueMarkers))
        => ~result.ok

\* C5: re-encode stability: for every input on which decode succeeds, encoding
\* the decoded value and decoding that again succeeds and returns a
\* structurally equal value.
ReencodeStable ==
    pc = "redecoded" => (reresult.ok /\ eq(reresult.val, result.val))

\* C9: mapping decode: decoding 'd' k1 v1 ... kn vn 'e' (n >= 0, distinct keys)
\* returns the mapping with exactly those n pairs.
MappingDecode ==
    (pc = "decoded" /\ how = "exact" /\ value.t = "BDict")
        => (result.ok /\ eq(result.val, value))

\* C10: list decode: decoding 'l' x1 ... xn 'e' returns the list of exactly
\* those n elements in order, also when some xi is itself a list followed by
\* further elements (stated here for lists that hold no mapping).
ListDecode ==
    (pc = "decoded" /\ how = "exact" /\ value.t = "BList" /\ NoDict(value))
        => (result.ok /\ eq(result.val, value))

IsPrefix(s, body) == Len(s) <= Len(body) /\ SubSeq(body, 1, Len(s)) = s

RECURSIVE ItemsLaidOut(_, _, _)
\* body is an encoding of items[i], then one of items[i+1], ..., and no more.
ItemsLaidOut(body, items, i) ==
    IF i > Len(items) THEN body = <<>>
    ELSE \E s \in encode(items[i]) :
            /\ IsPrefix(s, body)
            /\ ItemsLaidOut(SubSeq(body, Len(s) + 1, Len(body)), items, i + 1)

RECURSIVE PairsLaidOut(_, _, _, _)
\* body is, for order[i], order[i+1], ...: the key as <length>:<key>, then an
\* encoding of that key's own value; and no more.
PairsLaidOut(body, dict, order, i) ==
    IF i > Len(order) THEN body = <<>>
    ELSE LET key == FormatNat(Len(order[i])) \o <<":">> \o order[i]
         IN  \E s \in encode(dict[order[i]]) :
                /\ IsPrefix(key \o s, body)
                /\ PairsLaidOut(SubSeq(body, Len(key \o s) + 1, Len(body)),
                                dict, order, i + 1)

Ace == <<"a", "c", "e">>

Test == <<"t", "e", "s", "t">>

\* C6: the encoding of a list is 'l', the encodings of its items in list
\* order with nothing between them, 'e'; the empty list encodes as "le";
\* swapping two items swaps their encodings in the output.
ListEncoding ==
    (pc # "start" /\ value.t = "BList") =>
        /\ Len(encoded) >= 2
        /\ Head(encoded) = "l"
        /\ encoded[Len(encoded)] = "e"
        /\ ItemsLaidOut(SubSeq(encoded, 2, Len(encoded) - 1), value.list, 1)
        /\ value.list = <<>> => encoded = <<"l", "e">>
        /\ Len(value.list) = 2 =>
            \E s1 \in encode(value.list[1]), s2 \in encode(value.list[2]) :
                /\ encoded = <<"l">> \o s1 \o s2 \o <<"e">>
                /\ (<<"l">> \o s2 \o s1 \o <<"e">>)
                        \in encode(BList(<<value.list[2], value.list[1]>>))
        /\ eq(value, BList(<<BInt(1)>>)) => encoded = <<"l", "i", "1", "e", "e">>
        /\ eq(value, BList(<<BInt(1), BString(Ace)>>))
            => encoded = <<"l", "i", "1", "e", "3", ":", "a", "c", "e", "e">>
        /\ eq(value, BList(<<BString(Ace), BInt(1)>>))
            => encoded = <<"l", "3", ":", "a", "c", "e", "i", "1", "e", "e">>

\* A list of two different items was encoded.
ListEncodingWitness ==
    /\ pc = "encoded"
    /\ eq(value, BList(<<BString(Ace), BInt(1)>>))

\* C7: the encoding of a mapping is 'd', then for each key exactly once, in
\* some order, <length>:<key> followed by the encoding of that key's own
\* value, then 'e'; the empty mapping encodes as "de"; encode returns for
\* every value.
DictEncoding ==
    /\ pc = "start" => ENABLED Encode
    /\ (pc # "start" /\ value.t = "BDict") =>
        /\ Len(encoded) >= 2
        /\ Head(encoded) = "d"
        /\ encoded[Len(encoded)] = "e"
        /\ \E order \in IterOrders(DOMAIN value.dict) :
            PairsLaidOut(SubSeq(encoded, 2, Len(encoded) - 1), value.dict, order, 1)
        /\ DOMAIN value.dict = {} => encoded = <<"d", "e">>
        /\ eq(value, BDict(MapInsert(EmptyMap, Test, BInt(1))))
            => encoded = <<"d", "4", ":", "t", "e", "s", "t", "i", "1", "e", "e">>
        /\ eq(value, BDict(MapInsert(EmptyMap, Test, BList(<<>>))))
            => encoded = <<"d", "4", ":", "t", "e", "s", "t", "l", "e", "e">>

\* A mapping with two keys was encoded.
DictEncodingWitness ==
    /\ pc = "encoded"
    /\ value.t = "BDict"
    /\ Cardinality(DOMAIN value.dict) = 2

\* C8: bitfield last-write semantics: for every index below bit_size,
\* get_value is true iff the most recent call on that index was set_value
\* (false if it was never set), and a set_value or unset_value on one index
\* leaves get_value of every other index as it was before the call.
BitfieldLastWrite ==
    bf_pc # "new" =>
        /\ \A i \in 0..(bf_len - 1) : get_value(bf_bytes, i) = bf_last[i]
        /\ bf_call.op # "none" =>
            \A j \in 0..(bf_len - 1) :
                j # bf_call.index => get_value(bf_bytes, j) = get_value(bf_prev, j)

\* A 9-bit field (two bytes, the second partly used): bit 8 was set and then
\* unset again while bits 0 and 7 stay set.
BitfieldLastWriteWitness ==
    /\ bf_len = 9
    /\ bf_call = [op |-> "unset_value", index |-> 8]
    /\ get_value(bf_prev, 8)
    /\ ~get_value(bf_bytes, 8)
    /\ get_value(bf_bytes, 0)
    /\ get_value(bf_bytes, 7)
    /\ ~get_value(bf_bytes, 3)

====
